---- MODULE Spec2Model ----
(***************************************************************************)
(* powder-map: the terrain pipeline (fetchTerrainGrid and its IndexedDB    *)
(* cache), the wind aggregation and the page session of main.js            *)
(* (loadAndRender, the time toggle, the overlay on the map).               *)
(*                                                                         *)
(* Units.  Angles are whole degrees.  Latitudes and longitudes are         *)
(* hundredths of a degree, elevations tenths of a metre, snowfall tenths   *)
(* of an inch, precipitation of a wind sample tenths of an inch (so that   *)
(* the code's p * 10 is the stored integer).  Sines and cosines are scaled *)
(* by 10^3; the code only ever uses them inside atan2, which is invariant  *)
(* under a common positive scale of its two arguments.                     *)
(***************************************************************************)
EXTENDS Integers, Sequences, FiniteSets, TLC

\* ------------------------------------------------------------------ bounds
\* Number of loadAndRender calls of one page session (map load + clicks).
MaxCalls == 2
\* config.js sets the zoom to 14, which covers BOUNDS with 6 x 5 tiles; the
\* model lowers it so that the covering tile range is 2 x 1 tiles.
TERRAIN_ZOOM == 10
\* Side of a decoded tile (512 for the @2x tiles of the code).
TileSize == 3
\* Longest hourly series given to computeDominantWind.
MaxHours == 2
\* Highest elevation of the grids given to computeAspectGrid on its own.
MaxElevation == 1000000

\* ------------------------------------------------------------------ values
\* A value that may be absent (null or undefined in the code) is the empty set
\* when absent and the singleton of the value when present.
NULL == {}
Some(v) == {v}
Val(o) == CHOOSE v \in o : TRUE

\* A cell of a Float32Array that may hold NaN: NaN, or Some(number).
NaN == {}

\* JavaScript's % : the remainder has the sign of the dividend.
JsMod(a, b) == IF a >= 0 THEN a % b ELSE -((-a) % b)

Abs(x) == IF x < 0 THEN -x ELSE x

Min2(a, b) == IF a <= b THEN a ELSE b
Max2(a, b) == IF a >= b THEN a ELSE b

RECURSIVE Pow2(_)
Pow2(n) == IF n = 0 THEN 1 ELSE 2 * Pow2(n - 1)

\* sin(k degrees) * 10^3 for k = 0..90 (index k + 1).
SinTable ==
  << 0, 17, 35, 52, 70, 87, 105, 122, 139, 156, 174, 191, 208, 225, 242,
     259, 276, 292, 309, 326, 342, 358, 375, 391, 407, 423, 438, 454,
     469, 485, 500, 515, 530, 545, 559, 574, 588, 602, 616, 629, 643,
     656, 669, 682, 695, 707, 719, 731, 743, 755, 766, 777, 788, 799,
     809, 819, 829, 839, 848, 857, 866, 875, 883, 891, 899, 906, 914,
     921, 927, 934, 940, 946, 951, 956, 961, 966, 970, 974, 978, 982,
     985, 988, 990, 993, 995, 996, 998, 999, 999, 1000, 1000 >>

\* Math.sin(d * Math.PI / 180), scaled by 10^3, for any whole number of degrees.
SinDeg(d) ==
  LET a == ((d % 360) + 360) % 360
  IN  IF a <= 90 THEN SinTable[a + 1]
      ELSE IF a <= 180 THEN SinTable[180 - a + 1]
      ELSE IF a <= 270 THEN -SinTable[a - 180 + 1]
      ELSE -SinTable[360 - a + 1]

\* Math.cos(d * Math.PI / 180), scaled by 10^3.
CosDeg(d) == SinDeg(d + 90)

\* Math.atan2(y, x) * 180 / Math.PI, rounded down to whole degrees: a value in
\* -180..180, 180 exactly on the negative x axis, 0 for the zero vector.
\* Arguments beyond 10^6 are first brought down by a common divisor, rounding
\* down, which keeps the sign of a negative argument.
Atan2Deg(y, x) ==
  LET k == Max2(Abs(x), Abs(y)) \div 1000000 + 1
      ys == IF k = 1 THEN y ELSE y \div k
      xs == IF k = 1 THEN x ELSE x \div k
  IN  IF xs = 0 /\ ys = 0 THEN 0
      ELSE IF ys = 0 /\ xs < 0 THEN 180
      ELSE CHOOSE d \in -180..179 :
             /\ CosDeg(d) * ys - SinDeg(d) * xs >= 0
             /\ CosDeg(d + 1) * ys - SinDeg(d + 1) * xs < 0
             /\ CosDeg(d) * xs + SinDeg(d) * ys > 0

\* ------------------------------------------------------- wind (weather.js)
\* arr[i] of JavaScript: undefined (here NULL) past the end or on a missing array.
Elem(arr, i) ==
  IF arr = NULL THEN NULL
  ELSE IF i > Len(Val(arr)) THEN NULL
  ELSE Val(arr)[i]

\* One iteration of the loop of computeDominantWind, for the 1-based index i.
WindStep(acc, hourly, i) ==
  LET spd == Elem(hourly.wind_speed_10m, i)
      dir == Elem(hourly.wind_direction_10m, i)
      p == IF Elem(hourly.precipitation, i) # NULL
           THEN Val(Elem(hourly.precipitation, i)) ELSE 0
      weight == Val(spd) * (1 + p)
      gust == Elem(hourly.wind_gusts_10m, i)
  IN  IF spd = NULL \/ dir = NULL THEN acc
      ELSE [ sumX |-> acc.sumX + weight * SinDeg(Val(dir)),
             sumY |-> acc.sumY + weight * CosDeg(Val(dir)),
             totalWeight |-> acc.totalWeight + weight,
             totalSpeed |-> acc.totalSpeed + Val(spd),
             validCount |-> acc.validCount + 1,
             maxGust |-> IF gust # NULL /\ Val(gust) > acc.maxGust
                         THEN Val(gust) ELSE acc.maxGust ]

RECURSIVE WindLoop(_, _, _)
WindLoop(acc, hourly, i) ==
  IF i > Len(Val(hourly.wind_speed_10m)) THEN acc
  ELSE WindLoop(WindStep(acc, hourly, i), hourly, i + 1)

\* Lines 205-211 without the normalisation of line 206.
WindResultRaw(acc) ==
  IF acc.validCount = 0 \/ acc.totalWeight = 0 THEN NULL
  ELSE Some([ direction |-> Atan2Deg(acc.sumX, acc.sumY),
              avgSpeed |-> [num |-> acc.totalSpeed, den |-> acc.validCount],
              maxGust |-> acc.maxGust ])

\* Line 203 testing validCount alone.
WindResultAnyWeight(acc) ==
  IF acc.validCount = 0 THEN NULL
  ELSE LET direction == Atan2Deg(acc.sumX, acc.sumY)
       IN  Some([ direction |-> JsMod(JsMod(direction, 360) + 360, 360),
                  avgSpeed |-> [num |-> acc.totalSpeed, den |-> acc.validCount],
                  maxGust |-> acc.maxGust ])

\* The value returned once the loop has run: null, or the aggregate.  avgSpeed
\* is the quotient totalSpeed / validCount, kept as numerator and denominator.
WindResult(acc) ==
  IF acc.validCount = 0 \/ acc.totalWeight = 0 THEN NULL
  ELSE LET direction == Atan2Deg(acc.sumX, acc.sumY)
       IN  Some([ direction |-> JsMod(JsMod(direction, 360) + 360, 360),
                  avgSpeed |-> [num |-> acc.totalSpeed, den |-> acc.validCount],
                  maxGust |-> acc.maxGust ])

computeDominantWind(hourly) ==
  IF hourly.wind_speed_10m = NULL \/ hourly.wind_direction_10m = NULL
  THEN NULL
  ELSE IF Len(Val(hourly.wind_speed_10m)) = 0 THEN NULL
  ELSE WindResult(WindLoop([sumX |-> 0, sumY |-> 0, totalWeight |-> 0,
                            totalSpeed |-> 0, validCount |-> 0, maxGust |-> 0],
                           hourly, 1))

\* ------------------------------------------------------ snow (weather.js)
\* resort is the value of cachedResort: NULL or Some(object).  A property the
\* object does not have reads as undefined.
getResortSnowForPeriod(resort, hours) ==
  LET field == IF hours <= 12 THEN "snow12h"
               ELSE IF hours <= 24 THEN "snow24h" ELSE "snow48h"
  IN  IF resort = NULL THEN NULL
      ELSE IF field \in DOMAIN Val(resort) THEN Some(Val(resort)[field])
      ELSE NULL

\* Both arguments may be absent; the result is a number.
averageSnowfall(snotelSnowfall, resortSnowfall) ==
  IF snotelSnowfall # NULL /\ resortSnowfall # NULL
  THEN (Val(snotelSnowfall) + Val(resortSnowfall)) \div 2
  ELSE IF snotelSnowfall # NULL THEN Val(snotelSnowfall)
  ELSE IF resortSnowfall # NULL THEN Val(resortSnowfall)
  ELSE 0

\* --------------------------------------------------- geodesy (terrain.js)
\* config.js: the bounding box, in hundredths of a degree.
BOUNDS == [ sw |-> [lat |-> 4135, lon |-> -11182],
            ne |-> [lat |-> 4142, lon |-> -11173] ]

\* A second bounding box, one tile column to the east, for requests made to
\* fetchTerrainGrid directly.  Requests are the (bounds, zoom) pairs of the model.
OtherBounds == [ sw |-> [lat |-> 4135, lon |-> -11150],
                 ne |-> [lat |-> 4142, lon |-> -11141] ]

Requests == { [bounds |-> b, zoom |-> TERRAIN_ZOOM] : b \in {BOUNDS, OtherBounds} }

\* (1 - ln(tan(lat) + 1/cos(lat)) / pi) / 2, times 2^MercatorBits and rounded
\* down, for the latitudes of the model; the row of lonLatToTile is this
\* fraction times 2^zoom, rounded down.
MercatorBits == 20
MercatorFraction(lat) ==
  CASE lat = 4135 -> 391784
    [] lat = 4142 -> 391512

lonLatToTile(lon, lat, zoom) ==
  [ x |-> ((lon + 18000) * Pow2(zoom)) \div 36000,
    y |-> MercatorFraction(lat) \div Pow2(MercatorBits - zoom) ]

\* Metres per pixel, to the metre; the cosine is that of the whole degree.
earthCircumference == 40075017
getCellSize(zoom, lat) ==
  ((earthCircumference \div (256 * Pow2(zoom))) * CosDeg(lat \div 100)) \div 1000

\* The tile range of fetchTerrainGrid and getGridBounds.
TileRange(bounds, zoom) ==
  LET swTile == lonLatToTile(bounds.sw.lon, bounds.sw.lat, zoom)
      neTile == lonLatToTile(bounds.ne.lon, bounds.ne.lat, zoom)
      minTx == Min2(swTile.x, neTile.x)
      maxTx == Max2(swTile.x, neTile.x)
      minTy == Min2(swTile.y, neTile.y)
      maxTy == Max2(swTile.y, neTile.y)
  IN  [ minTx |-> minTx, maxTx |-> maxTx, minTy |-> minTy, maxTy |-> maxTy,
        cols |-> maxTx - minTx + 1, rows |-> maxTy - minTy + 1 ]

\* The tiles of the range in the order fetchTerrainGrid pushes their promises:
\* row by row, each row west to east.
RangeTiles(rg) ==
  [ k \in 1..(rg.cols * rg.rows) |->
      [ tx |-> rg.minTx + ((k - 1) % rg.cols),
        ty |-> rg.minTy + ((k - 1) \div rg.cols) ] ]

\* ------------------------------------------------ tiles (terrain.js 43-68)
\* The payload the tile server holds for a pixel: the red, green and blue
\* channels of the Terrain-RGB image (the terrain of the model).
TilePixel(zoom, tx, ty, px, py) ==
  LET gx == tx * TileSize + px
      gy == ty * TileSize + py
  IN  [ r |-> 1,
        g |-> (tx + ty + zoom) % 4,
        b |-> (gx * gx + 3 * gy * gy + gx * gy) % 256 ]

\* fetchTerrainTile on a successful response: the decoded tile.
fetchTerrainTile(x, y, zoom) ==
  [ elevations |->
      [ i \in 1..(TileSize * TileSize) |->
          LET pix == TilePixel(zoom, x, y, (i - 1) % TileSize, (i - 1) \div TileSize)
          IN  -100000 + (pix.r * 256 * 256 + pix.g * 256 + pix.b) ],
    size |-> TileSize ]

\* ---------------------------------------------- stitch (terrain.js 119-139)
\* The body of the loop with the column and the row offsets exchanged.
StitchTileTransposed(elevations, tile, rg, tileSize, width) ==
  LET col == tile.tx - rg.minTx
      row == tile.ty - rg.minTy
      offsetX == row * tileSize
      offsetY == col * tileSize
  IN  [ k \in 1..Len(elevations) |->
          LET gx == (k - 1) % width
              gy == (k - 1) \div width
          IN  IF /\ gx >= offsetX /\ gx < offsetX + tileSize
                 /\ gy >= offsetY /\ gy < offsetY + tileSize
              THEN tile.elevations[(gy - offsetY) * tileSize + (gx - offsetX) + 1]
              ELSE elevations[k] ]

\* The body of the loop over the tiles: the grid after one tile is copied in.
StitchTile(elevations, tile, rg, tileSize, width) ==
  LET col == tile.tx - rg.minTx
      row == tile.ty - rg.minTy
      offsetX == col * tileSize
      offsetY == row * tileSize
  IN  [ k \in 1..Len(elevations) |->
          LET gx == (k - 1) % width
              gy == (k - 1) \div width
          IN  IF /\ gx >= offsetX /\ gx < offsetX + tileSize
                 /\ gy >= offsetY /\ gy < offsetY + tileSize
              THEN tile.elevations[(gy - offsetY) * tileSize + (gx - offsetX) + 1]
              ELSE elevations[k] ]

RECURSIVE StitchLoop(_, _, _, _, _, _)
StitchLoop(elevations, tiles, i, rg, tileSize, width) ==
  IF i > Len(tiles) THEN elevations
  ELSE StitchLoop(StitchTile(elevations, tiles[i], rg, tileSize, width),
                  tiles, i + 1, rg, tileSize, width)

\* The stitched grid of a complete list of tiles: a new Float32Array (zeros)
\* of cols * tileSize by rows * tileSize, filled tile by tile.
Stitch(tiles, rg) ==
  LET tileSize == tiles[1].size
      width == rg.cols * tileSize
      height == rg.rows * tileSize
  IN  [ elevations |-> StitchLoop([k \in 1..(width * height) |-> 0],
                                  tiles, 1, rg, tileSize, width),
        width |-> width, height |-> height, tileSize |-> tileSize ]

\* ------------------------------------------------ aspect (terrain.js 175-214)
\* Line 176 and 209: the aspect grid is a Float32Array, and the store of a
\* double rounds it to the nearest float32.  Next to 360 the float32 values
\* are 2^-15 apart, so a bearing within 2^-16 of a degree below 360 is stored
\* as 360: that is atan2(dzdx, -dzdy) negative with -dzdy at least
\* cot(2^-16 degrees) times -dzdx.
Float32HalfStepCot == 3754937

\* The value a[i] holds after a[i] = asp, in whole degrees.
Float32Aspect(asp, dzdx, dzdy) ==
  IF dzdx < 0 /\ dzdy < 0 /\ (-dzdy) \div Float32HalfStepCot >= -dzdx
  THEN 360 ELSE asp

\* Horn's method.  dzdx and dzdy are kept as their numerators: the divisor
\* 8 * cellSize is positive, so it changes neither the test for zero nor atan2.
computeAspectGrid(elevations, width, height, cellSize) ==
  [ k \in 1..(width * height) |->
      LET x == (k - 1) % width
          y == (k - 1) \div width
          at(r, c) == elevations[r * width + c + 1]
      IN  IF x = 0 \/ x = width - 1 \/ y = 0 \/ y = height - 1 THEN NaN
          ELSE LET a == at(y - 1, x - 1)
                   b == at(y - 1, x)
                   c == at(y - 1, x + 1)
                   d == at(y, x - 1)
                   f == at(y, x + 1)
                   g == at(y + 1, x - 1)
                   h == at(y + 1, x)
                   ii == at(y + 1, x + 1)
                   dzdx == (c + 2 * f + ii) - (a + 2 * d + g)
                   dzdy == (g + 2 * h + ii) - (a + 2 * b + c)
               IN  IF dzdx = 0 /\ dzdy = 0 THEN NaN
                   ELSE LET asp == Atan2Deg(dzdx, -dzdy)
                        IN  Some(Float32Aspect(JsMod(JsMod(asp, 360) + 360, 360),
                                               dzdx, dzdy)) ]

\* ------------------------------------------- terrain cache (terrain-cache.js)
\* String(n) of JavaScript for a number given in hundredths: no trailing zeros.
NumberToString(h) ==
  LET a == IF h < 0 THEN -h ELSE h
      frac == a % 100
  IN  (IF h < 0 THEN "-" ELSE "") \o ToString(a \div 100) \o
      (IF frac = 0 THEN ""
       ELSE IF frac % 10 = 0 THEN "." \o ToString(frac \div 10)
       ELSE IF frac < 10 THEN ".0" \o ToString(frac)
       ELSE "." \o ToString(frac))

\* The template of cacheKey applied to a bounding box and a zoom.
KeyString(bounds, zoom) ==
  NumberToString(bounds.sw.lat) \o "," \o NumberToString(bounds.sw.lon) \o ","
    \o NumberToString(bounds.ne.lat) \o "," \o NumberToString(bounds.ne.lon)
    \o "@z" \o ToString(zoom)

\* cacheKey(): the key of every read and write.  It takes no argument and is
\* built from the imported BOUNDS and TERRAIN_ZOOM.
cacheKey == KeyString(BOUNDS, TERRAIN_ZOOM)

\* store.get(key): the entry, or NULL (req.result || null).
StoreGet(st, key) == IF key \in DOMAIN st THEN Some(st[key]) ELSE NULL

\* store.put(entry, key) of a transaction that completes.
StorePut(st, key, entry) ==
  [ k \in (DOMAIN st) \cup {key} |-> IF k = key THEN entry ELSE st[k] ]

\* ------------------------------------------------ fetchTerrainGrid (terrain.js)
\* The tiles of a request, each with its decoded payload, in promise order.
FetchedTiles(bounds, zoom) ==
  LET rg == TileRange(bounds, zoom)
      ts == RangeTiles(rg)
  IN  [ k \in 1..Len(ts) |->
          [ tx |-> ts[k].tx, ty |-> ts[k].ty,
            elevations |-> fetchTerrainTile(ts[k].tx, ts[k].ty, zoom).elevations,
            size |-> fetchTerrainTile(ts[k].tx, ts[k].ty, zoom).size ] ]

\* Lines 119-148: what fetchTerrainGrid computes once Promise.all has every tile.
ComputeTerrain(bounds, zoom) ==
  LET rg == TileRange(bounds, zoom)
      st == Stitch(FetchedTiles(bounds, zoom), rg)
      midLat == (bounds.sw.lat + bounds.ne.lat) \div 2
      cellSize == getCellSize(zoom, midLat)
      effectiveCellSize == cellSize \div 2
  IN  [ elevations |-> st.elevations,
        aspectGrid |-> computeAspectGrid(st.elevations, st.width, st.height,
                                         effectiveCellSize),
        width |-> st.width, height |-> st.height,
        metadata |-> [ zoom |-> zoom, cellSize |-> effectiveCellSize,
                       cols |-> rg.cols, rows |-> rg.rows,
                       tileSize |-> st.tileSize ] ]

\* ComputeTerrain of every request of the model, computed once.
TerrainTable == [ req \in Requests |-> ComputeTerrain(req.bounds, req.zoom) ]

\* The object fetchTerrainGrid resolves with, from a cache entry or a fresh grid.
TerrainResult(g, bounds) ==
  [ elevations |-> g.elevations, aspectGrid |-> g.aspectGrid,
    width |-> g.width, height |-> g.height, bounds |-> bounds ]

\* Lines 81-89 with the stored grids recomputed from the tiles instead of
\* being taken from the entry.
HitResultRecomputed(cached, bounds) ==
  TerrainResult(TerrainTable[[bounds |-> bounds, zoom |-> TERRAIN_ZOOM]], bounds)

\* Lines 81-89: what fetchTerrainGrid returns for the entry the cache gave.
HitResult(cached, bounds) ==
  [ elevations |-> cached.elevations, aspectGrid |-> cached.aspectGrid,
    width |-> cached.width, height |-> cached.height, bounds |-> bounds ]

\* The object given to store.put (its timestamp, which nothing reads, left out).
CacheEntry(g) ==
  [ elevations |-> g.elevations, aspectGrid |-> g.aspectGrid,
    width |-> g.width, height |-> g.height, metadata |-> g.metadata ]

\* ---------------------------------------------------------------- the state
VARIABLES
  store,          \* the IndexedDB object store 'terrain': key -> entry
  loaded,         \* whether the map's 'load' event has fired
  currentHours,   \* main.js: the selected lookback window
  cachedTerrain,  \* main.js: NULL or Some(value)
  cachedResort,   \* main.js: NULL or Some(value)
  status,         \* the #status-message element
  panel,          \* the weather panel
  mapSource,      \* the map's 'powder-overlay' source: NULL or Some(image)
  mapLayer,       \* whether the map has the 'powder-overlay-layer' layer
  calls,          \* the fetchTerrainGrid / loadAndRender calls, by number
  nCalls,         \* how many calls have started
  tileFetches,    \* per tile, how many HTTP requests were issued for it
  putCount,       \* how many cache writes have completed
  fnIn,           \* the argument of a function applied on its own
  fnOut           \* and its result

vars == << store, loaded, currentHours, cachedTerrain, cachedResort, status,
           panel, mapSource, mapLayer, calls, nCalls, tileFetches, putCount,
           fnIn, fnOut >>

sessionVars == << currentHours, cachedTerrain, cachedResort, status, panel,
                  mapSource, mapLayer >>

CallIds == 1..MaxCalls

\* The lookback windows of the time-toggle buttons.
HoursOptions == {12, 24, 48}

TileId(zoom, tile) == [zoom |-> zoom, tx |-> tile.tx, ty |-> tile.ty]

RequestTiles(req) ==
  LET ts == RangeTiles(TileRange(req.bounds, req.zoom))
  IN  { TileId(req.zoom, ts[k]) : k \in 1..Len(ts) }

AllTiles == UNION { RequestTiles(req) : req \in Requests }

\* ------------------------------------------------------- a promise of a leg
NoLeg == [st |-> "none", v |-> NULL]
Pending == [st |-> "pending", v |-> NULL]
Settled(v) == [st |-> "settled", v |-> v]

\* What the servers can answer (a failed fetch is the NULL of the .catch).
SnotelResults == { NULL, Some([totalSnowfall |-> 12, totalPrecip |-> 1]) }

ResortResults == { NULL, Some([snow12h |-> 0, snow24h |-> 0, snow48h |-> 20]) }

WindCalm == [ wind_speed_10m |-> Some(<< Some(0) >>),
              wind_direction_10m |-> Some(<< Some(90) >>),
              wind_gusts_10m |-> Some(<< Some(0) >>),
              precipitation |-> Some(<< Some(0) >>) ]

WindWest == [ wind_speed_10m |-> Some(<< Some(10), Some(20) >>),
              wind_direction_10m |-> Some(<< Some(270), Some(280) >>),
              wind_gusts_10m |-> Some(<< Some(25), NULL >>),
              precipitation |-> Some(<< Some(1), NULL >>) ]

WindResults == { NULL, Some([hourly |-> Some(WindCalm)]),
                 Some([hourly |-> Some(WindWest)]) }

\* computeDominantWind of every series the wind server of the model answers.
DominantWindTable == [ h \in {WindCalm, WindWest} |-> computeDominantWind(h) ]

\* The cache of an earlier session: nothing, the entry that session computed
\* from today's tiles, or one it computed from the tiles of its day.
FreshEntry == CacheEntry(TerrainTable[[bounds |-> BOUNDS, zoom |-> TERRAIN_ZOOM]])
OlderEntry ==
  [ FreshEntry EXCEPT !.elevations = [ k \in DOMAIN FreshEntry.elevations |->
                                         FreshEntry.elevations[k] + 10 ] ]
EmptyStore == [ k \in {} |-> {} ]
InitialStores ==
  { EmptyStore } \cup { StorePut(EmptyStore, cacheKey, e) : e \in {FreshEntry, OlderEntry} }

\* A call that has not started.
IdleCall ==
  [ pc |-> "idle", hours |-> 0, req |-> [bounds |-> BOUNDS, zoom |-> TERRAIN_ZOOM],
    pushedResort |-> FALSE, pushedTerrain |-> FALSE,
    snotel |-> NoLeg, wind |-> NoLeg, resort |-> NoLeg, terrain |-> NoLeg,
    tpc |-> "none", key |-> "", got |-> {}, grid |-> NULL,
    \* what the call has done so far
    read |-> "none", requested |-> {}, stitched |-> FALSE,
    aspect |-> FALSE, save |-> "none",
    tileFailed |-> FALSE, rejected |-> FALSE,
    snowSeen |-> "none", windSeen |-> "none", path |-> "none", scored |-> FALSE, added |-> FALSE,
    end |-> NULL ]

Init ==
  /\ store \in InitialStores
  /\ loaded = FALSE
  /\ currentHours = 24
  /\ cachedTerrain = NULL
  /\ cachedResort = NULL
  /\ status = [visible |-> FALSE, text |-> ""]
  /\ panel = [mode |-> "loading", hours |-> 0]
  /\ mapSource = NULL
  /\ mapLayer = FALSE
  /\ calls = [c \in CallIds |-> IdleCall]
  /\ nCalls = 0
  /\ tileFetches = [t \in AllTiles |-> 0]
  /\ putCount = 0
  /\ fnIn = NULL
  /\ fnOut = NULL

\* ------------------------------------------------------------- UI (main.js)
showStatus(msg) == [visible |-> TRUE, text |-> msg]
hideStatus(s) == [s EXCEPT !.visible = FALSE]

MsgLoading == "Loading powder data"
MsgTerrain == "Terrain data unavailable. Check your Mapbox token."
MsgError == "Error loading data. See console for details."

\* removeOverlay (main.js 196-203) that leaves the layer and the source.
removeOverlayKeeps(m) == m

\* removeOverlay (main.js 196-203): the map m without the layer and the source.
removeOverlay(m) == [source |-> NULL, layer |-> FALSE]

\* A terrain value has the grids; any other object reads them as undefined.
IsTerrain(obj) == "aspectGrid" \in DOMAIN obj

\* ------------------------------------------- loadAndRender (main.js 73-194)
\* Lines 74-109: everything up to the await of Promise.all.  The resort and
\* terrain fetches are only pushed while their session cache is empty;
\* fetchTerrainGrid runs to its first await, the cache read.
StartCall(c, hours) ==
  /\ status' = showStatus(MsgLoading)
  /\ calls' = [ calls EXCEPT ![c] =
       [ IdleCall EXCEPT
           !.pc = "awaitAll", !.hours = hours,
           !.snotel = Pending, !.wind = Pending,
           !.pushedResort = (cachedResort = NULL),
           !.resort = IF cachedResort = NULL THEN Pending ELSE NoLeg,
           !.pushedTerrain = (cachedTerrain = NULL),
           !.terrain = IF cachedTerrain = NULL THEN Pending ELSE NoLeg,
           !.tpc = IF cachedTerrain = NULL THEN "reading" ELSE "none" ] ]
  /\ nCalls' = c

\* Lines 109-193: from the moment Promise.all resolves to the return, or to
\* the await of renderOverlay.  cr is the call with every leg settled.
Join(c, cr) ==
  LET results == << cr.snotel.v, cr.wind.v >>
                   \o (IF cr.pushedResort THEN << cr.resort.v >> ELSE << >>)
                   \o (IF cr.pushedTerrain THEN << cr.terrain.v >> ELSE << >>)
      snotel == results[1]
      windData == results[2]
      \* results[idx] of the code is results[idx + 1] here
      takeResort == cachedResort = NULL /\ Len(results) > 2
      newResort == IF takeResort THEN results[3] ELSE cachedResort
      idx == IF takeResort THEN 3 ELSE 2
      takeTerrain == cachedTerrain = NULL /\ Len(results) > idx
      newTerrain == IF takeTerrain THEN results[idx + 1] ELSE cachedTerrain
      wind == IF windData # NULL
              THEN IF Val(windData).hourly # NULL
                   THEN DominantWindTable[Val(Val(windData).hourly)]
                   ELSE NULL
              ELSE NULL
      snotelSnowfall == IF snotel # NULL THEN Some(Val(snotel).totalSnowfall) ELSE NULL
      resortSnowfall == getResortSnowForPeriod(newResort, cr.hours)
      totalSnowfall == averageSnowfall(snotelSnowfall, resortSnowfall)
      newPanel == IF snotel # NULL \/ newResort # NULL
                  THEN [mode |-> "content", hours |-> cr.hours]
                  ELSE [mode |-> "error", hours |-> panel.hours]
      path == IF newTerrain = NULL THEN "terrainUnavailable"
              ELSE IF totalSnowfall < 5 THEN "noSnow"
              ELSE IF wind = NULL THEN "noWind"
              ELSE IF IsTerrain(Val(newTerrain)) THEN "render"
              \* computePowderScores returns an empty grid and renderOverlay
              \* throws on new OffscreenCanvas(undefined, undefined)
              ELSE "error"
      newStatus == CASE path = "terrainUnavailable" -> showStatus(MsgTerrain)
                     [] path = "error" -> showStatus(MsgError)
                     [] path = "render" -> status
                     [] OTHER -> hideStatus(status)
      map == [source |-> mapSource, layer |-> mapLayer]
      newMap == IF path \in {"noSnow", "noWind"} THEN removeOverlay(map) ELSE map
      newSource == newMap.source
      newLayer == newMap.layer
  IN  /\ cachedResort' = newResort
      /\ cachedTerrain' = newTerrain
      /\ panel' = newPanel
      /\ status' = newStatus
      /\ mapSource' = newSource
      /\ mapLayer' = newLayer
      /\ calls' = [ calls EXCEPT ![c] =
           [ cr EXCEPT
               !.pc = IF path = "render" THEN "awaitRender" ELSE "done",
               \* the results array is dropped; what the wind leg gave is kept
               !.snotel = NoLeg, !.wind = NoLeg, !.resort = NoLeg,
               !.terrain = NoLeg,
               !.snowSeen = IF snotel # NULL \/ newResort # NULL
                            THEN "some" ELSE "absent",
               !.windSeen = IF windData = NULL THEN "failed"
                            ELSE IF wind = NULL THEN "degenerate" ELSE "ok",
               !.path = path,
               !.scored = path \in {"render", "error"},
               !.end = IF path = "render" THEN NULL
                       ELSE Some([ status |-> newStatus, source |-> newSource,
                                   layer |-> newLayer ]) ] ]
      /\ UNCHANGED currentHours

\* A step of the terrain leg of call c, leaving the call as cr.
SettleLeg(c, cr) ==
  /\ calls' = [calls EXCEPT ![c] = cr]
  /\ UNCHANGED sessionVars

\* Lines 178-187: renderOverlay has resolved; addOverlayToMap and hideStatus.
RenderDone(c) ==
  /\ calls[c].pc = "awaitRender"
  /\ mapSource' = Some([hours |-> calls[c].hours])
  /\ mapLayer' = TRUE
  /\ status' = hideStatus(status)
  /\ calls' = [ calls EXCEPT ![c] =
       [ calls[c] EXCEPT
           !.pc = "done", !.path = "rendered", !.added = TRUE,
           !.end = Some([ status |-> hideStatus(status),
                          source |-> Some([hours |-> calls[c].hours]),
                          layer |-> TRUE ]) ] ]
  /\ UNCHANGED << store, loaded, currentHours, cachedTerrain, cachedResort, panel,
                  nCalls, tileFetches, putCount, fnIn, fnOut >>

\* map.on('load'): the initial load.
MapLoad ==
  /\ ~loaded
  /\ nCalls < MaxCalls
  /\ loaded' = TRUE
  /\ StartCall(nCalls + 1, currentHours)
  /\ UNCHANGED << store, currentHours, cachedTerrain, cachedResort, panel,
                  mapSource, mapLayer, tileFetches, putCount, fnIn, fnOut >>

\* A click on the time-toggle button of h hours (a click on the selected
\* button returns at once).  The session of the model has the map loaded
\* before the first click.
Click(h) ==
  /\ loaded
  /\ nCalls < MaxCalls
  /\ h # currentHours
  /\ currentHours' = h
  /\ StartCall(nCalls + 1, h)
  /\ UNCHANGED << store, loaded, cachedTerrain, cachedResort, panel,
                  mapSource, mapLayer, tileFetches, putCount, fnIn, fnOut >>

\* Lines 78-97 and 109: the SNOTEL, wind and resort fetches of a call settle,
\* each through its .catch (a failure is null), and Promise.all resolves.
\* Until Promise.all resolves nothing outside the call can see whether a
\* weather fetch has settled, so the three settle in one step, taken once the
\* terrain leg (if the call has one) has settled: a run in which they settle
\* earlier differs from one of these only in the call's own promises.
WeatherSettle(c, s, w, r) ==
  /\ calls[c].pc = "awaitAll"
  /\ calls[c].terrain.st # "pending"
  /\ calls[c].pushedResort \/ r = NULL
  /\ Join(c, [ calls[c] EXCEPT
       !.snotel = Settled(s), !.wind = Settled(w),
       !.resort = IF calls[c].pushedResort THEN Settled(r) ELSE NoLeg ])
  /\ UNCHANGED << store, loaded, nCalls, tileFetches, putCount, fnIn, fnOut >>

\* ------------------------------------- fetchTerrainGrid (terrain.js 78-167)
ReadOutcomes == {"ok", "openFail", "txThrow", "getError"}
SaveOutcomes == {"ok", "openFail", "txError"}

\* loadTerrainFromCache as fetchTerrainGrid awaits it.  The try block awaits
\* openDB only: a failure to open is caught and gives null; the promise of
\* the request is returned without being awaited, so an exception thrown by
\* db.transaction (a rejection raised by the Promise constructor) or an error
\* event of the get request rejects loadTerrainFromCache itself.
\* The result is [rejects |-> ..., cached |-> ...].
loadTerrainFromCache(st, outcome) ==
  CASE outcome = "openFail" -> [rejects |-> FALSE, cached |-> NULL]
    [] outcome = "txThrow" -> [rejects |-> TRUE, cached |-> NULL]
    [] outcome = "getError" -> [rejects |-> TRUE, cached |-> NULL]
    [] outcome = "ok" -> [rejects |-> FALSE, cached |-> StoreGet(st, cacheKey)]

\* saveTerrainToCache whose put outlives a transaction that did not complete.
saveTerrainToCachePartial(st, data, outcome) ==
  StorePut(st, cacheKey, CacheEntry(data))

\* saveTerrainToCache as fetchTerrainGrid awaits it inside its try block: the
\* store afterwards.  Only a transaction that completes changes the store.
saveTerrainToCache(st, data, outcome) ==
  IF outcome = "ok" THEN StorePut(st, cacheKey, CacheEntry(data)) ELSE st

\* Lines 79-117: the cache read settles.  A hit returns the stored grids; a
\* miss issues the fetch of every tile of the range; a rejected read rejects
\* fetchTerrainGrid, which the caller's .catch turns to null.
CacheReadSettle(c, outcome) ==
  /\ calls[c].tpc = "reading"
  /\ LET rd == loadTerrainFromCache(store, outcome)
         req == calls[c].req
         base == [calls[c] EXCEPT !.key = cacheKey]
     IN  IF rd.rejects
         THEN /\ SettleLeg(c, [ base EXCEPT !.tpc = "rejected", !.read = outcome,
                                            !.rejected = TRUE,
                                            !.terrain = Settled(NULL) ])
              /\ UNCHANGED tileFetches
         ELSE IF rd.cached # NULL
         THEN /\ SettleLeg(c, [ base EXCEPT
                   !.tpc = "resolved", !.read = "hit",
                   !.terrain = Settled(Some(HitResult(Val(rd.cached), req.bounds))) ])
              /\ UNCHANGED tileFetches
         ELSE /\ SettleLeg(c, [ base EXCEPT
                   !.tpc = "fetching",
                   !.read = IF outcome = "ok" THEN "miss" ELSE outcome,
                   !.requested = RequestTiles(req) ])
              /\ tileFetches' = [ t \in AllTiles |->
                   IF t \in RequestTiles(req) THEN tileFetches[t] + 1
                   ELSE tileFetches[t] ]
  /\ UNCHANGED << store, loaded, nCalls, putCount, fnIn, fnOut >>

\* Lines 43-68 and 117-160: a tile arrives and decodes.  With the last one
\* Promise.all resolves: the grid is stitched, the aspect grid computed and
\* saveTerrainToCache called.
TileOk(c, t) ==
  /\ calls[c].tpc = "fetching"
  /\ t \in calls[c].requested \ calls[c].got
  /\ LET got == calls[c].got \cup {t}
         req == calls[c].req
     IN  IF got = calls[c].requested
         THEN SettleLeg(c, [ calls[c] EXCEPT
                !.got = got, !.tpc = "saving", !.stitched = TRUE, !.aspect = TRUE,
                !.grid = Some(TerrainTable[req]) ])
         ELSE SettleLeg(c, [calls[c] EXCEPT !.got = got])
  /\ UNCHANGED << store, loaded, nCalls, tileFetches, putCount, fnIn, fnOut >>

\* Lines 117-160 run with a tile missing: the grid is stitched with a hole.
AfterTileFailStitches(cr) ==
  [ cr EXCEPT !.tpc = "saving", !.got = {}, !.tileFailed = TRUE,
              !.stitched = TRUE, !.aspect = TRUE,
              !.grid = Some(TerrainTable[cr.req]) ]

\* terrain.js 117 and main.js 102-106: Promise.all rejects with the first
\* failure, fetchTerrainGrid rejects, and the caller's .catch gives null.
AfterTileFail(cr) ==
  [ cr EXCEPT !.tpc = "rejected", !.got = {}, !.tileFailed = TRUE,
              !.rejected = TRUE, !.terrain = Settled(NULL) ]

\* A tile fails to fetch (res.ok is false) or to decode (createImageBitmap
\* rejects): Promise.all rejects at once and so does fetchTerrainGrid.
TileFail(c, t) ==
  /\ calls[c].tpc = "fetching"
  /\ t \in calls[c].requested \ calls[c].got
  /\ SettleLeg(c, AfterTileFail(calls[c]))
  /\ UNCHANGED << store, loaded, nCalls, tileFetches, putCount, fnIn, fnOut >>

\* Lines 152-166 without the try block: a rejected save rejects the call.
AfterSaveUncaught(cr, outcome, ret) ==
  IF outcome = "ok"
  THEN [ cr EXCEPT !.tpc = "resolved", !.got = {}, !.grid = NULL,
                   !.save = outcome, !.terrain = Settled(ret) ]
  ELSE [ cr EXCEPT !.tpc = "rejected", !.got = {}, !.grid = NULL,
                   !.save = outcome, !.rejected = TRUE,
                   !.terrain = Settled(NULL) ]

\* Lines 152-166: the call once the awaited save has settled with outcome;
\* ret is the object of line 166.
AfterSave(cr, outcome, ret) ==
  [ cr EXCEPT !.tpc = "resolved", !.got = {}, !.grid = NULL,
              !.save = outcome, !.terrain = Settled(ret) ]

\* Lines 152-166: saveTerrainToCache settles; a rejection is caught and
\* logged, and fetchTerrainGrid resolves with the fresh grids either way.
SaveSettle(c, outcome) ==
  /\ calls[c].tpc = "saving"
  /\ LET grid == Val(calls[c].grid)
         ret == Some(TerrainResult(grid, calls[c].req.bounds))
     IN  /\ store' = saveTerrainToCache(store, grid, outcome)
         /\ putCount' = IF outcome = "ok" THEN putCount + 1 ELSE putCount
         /\ SettleLeg(c, AfterSave(calls[c], outcome, ret))
  /\ UNCHANGED << loaded, nCalls, tileFetches, fnIn, fnOut >>

\* ------------------------------------------------------------ the session
Next ==
  \/ MapLoad
  \/ \E h \in HoursOptions : Click(h)
  \/ \E c \in CallIds : \E s \in SnotelResults, w \in WindResults, r \in ResortResults :
       WeatherSettle(c, s, w, r)
  \/ \E c \in CallIds : \E o \in ReadOutcomes : CacheReadSettle(c, o)
  \/ \E c \in CallIds : \E t \in AllTiles : TileOk(c, t)
  \/ \E c \in CallIds : \E t \in AllTiles : TileFail(c, t)
  \/ \E c \in CallIds : \E o \in SaveOutcomes : SaveSettle(c, o)
  \/ \E c \in CallIds : RenderDone(c)

Spec == Init /\ [][Next]_vars

\* ------------------------------------------- fetchTerrainGrid on its own
\* A caller other than loadAndRender calls fetchTerrainGrid(bounds, zoom, token).
ApiCall(c, req) ==
  /\ nCalls < MaxCalls
  /\ c = nCalls + 1
  /\ calls' = [ calls EXCEPT ![c] =
       [ IdleCall EXCEPT !.pc = "api", !.req = req, !.pushedTerrain = TRUE,
                         !.terrain = Pending, !.tpc = "reading" ] ]
  /\ nCalls' = c
  /\ UNCHANGED << store, loaded, sessionVars, tileFetches, putCount, fnIn, fnOut >>

NextAPI ==
  \/ \E c \in CallIds : \E req \in Requests : ApiCall(c, req)
  \/ \E c \in CallIds : \E o \in ReadOutcomes : CacheReadSettle(c, o)
  \/ \E c \in CallIds : \E t \in AllTiles : TileOk(c, t)
  \/ \E c \in CallIds : \E t \in AllTiles : TileFail(c, t)
  \/ \E c \in CallIds : \E o \in SaveOutcomes : SaveSettle(c, o)

SpecAPI == Init /\ [][NextAPI]_vars

\* ----------------------------------------- computeDominantWind on its own
\* The hourly samples of the model: speed (mph), direction, precipitation
\* and gust, each of which the server may leave null.
WindSamples ==
  [ spd : {NULL, Some(0), Some(10)},
    dir : {NULL, Some(90), Some(200), Some(270)},
    precip : {NULL, Some(3)},
    gust : {NULL, Some(15)} ]

WindSeries == UNION { [1..n -> WindSamples] : n \in 0..MaxHours }

\* The hourly object of a series; `without` names an array the answer lacks,
\* and "short" cuts the direction array one sample short.
Hourly(series, without) ==
  LET col(f) == [ i \in 1..Len(series) |-> series[i][f] ]
      dirs == IF without = "short" /\ Len(series) > 0
              THEN SubSeq(col("dir"), 1, Len(series) - 1) ELSE col("dir")
  IN  [ wind_speed_10m |-> IF without = "speeds" THEN NULL ELSE Some(col("spd")),
        wind_direction_10m |-> IF without = "dirs" THEN NULL ELSE Some(dirs),
        wind_gusts_10m |-> IF without = "gusts" THEN NULL ELSE Some(col("gust")),
        precipitation |-> IF without = "precip" THEN NULL ELSE Some(col("precip")) ]

HourlyInputs ==
  { Hourly(s, w) : s \in WindSeries,
                   w \in {"none", "speeds", "dirs", "gusts", "precip", "short"} }

InitWind ==
  /\ store = EmptyStore
  /\ loaded = FALSE
  /\ currentHours = 24
  /\ cachedTerrain = NULL
  /\ cachedResort = NULL
  /\ status = [visible |-> FALSE, text |-> ""]
  /\ panel = [mode |-> "loading", hours |-> 0]
  /\ mapSource = NULL
  /\ mapLayer = FALSE
  /\ calls = [c \in CallIds |-> IdleCall]
  /\ nCalls = 0
  /\ tileFetches = [t \in AllTiles |-> 0]
  /\ putCount = 0
  /\ fnIn \in { Some(h) : h \in HourlyInputs }
  /\ fnOut = NULL

\* computeDominantWind(hourly) is called and returns.
ApplyWind ==
  /\ fnOut = NULL
  /\ fnOut' = Some([v |-> computeDominantWind(Val(fnIn))])
  /\ UNCHANGED << store, loaded, sessionVars, calls, nCalls, tileFetches,
                  putCount, fnIn >>

NextWind == ApplyWind

SpecWind == InitWind /\ [][NextWind]_vars

\* ------------------------------------------------ functions on their own
\* The page and the cache at rest while a function is applied on its own.
IdleSession ==
  /\ store = EmptyStore
  /\ loaded = FALSE
  /\ currentHours = 24
  /\ cachedTerrain = NULL
  /\ cachedResort = NULL
  /\ status = [visible |-> FALSE, text |-> ""]
  /\ panel = [mode |-> "loading", hours |-> 0]
  /\ mapSource = NULL
  /\ mapLayer = FALSE
  /\ calls = [c \in CallIds |-> IdleCall]
  /\ nCalls = 0
  /\ tileFetches = [t \in AllTiles |-> 0]
  /\ putCount = 0

\* Every variable but the result of the function.
restOfFn == << store, loaded, sessionVars, calls, nCalls, tileFetches,
               putCount, fnIn >>

\* ------------------------------ computeDominantWind of a single sample
\* One hour of wind: a speed (calm or not), any whole direction, and a
\* precipitation that is missing, zero or positive.
OneSampleInputs ==
  { Hourly(<< [spd |-> Some(s), dir |-> Some(d), precip |-> p, gust |-> Some(s)] >>,
           "none") :
      s \in {0, 7}, d \in 0..359, p \in {NULL, Some(0), Some(3)} }

InitWindOne ==
  /\ IdleSession
  /\ fnIn \in { Some(h) : h \in OneSampleInputs }
  /\ fnOut = NULL

NextWindOne == ApplyWind

SpecWindOne == InitWindOne /\ [][NextWindOne]_vars

\* --------------------------------------------------- scoring (powder.js)
\* angleDifference without the fold of line 7.
angleDifferenceUnfolded(a, b) == Abs(JsMod(JsMod(a - b, 360) + 360, 360))

\* angleDifference (utils.js 5-9).
angleDifference(a, b) ==
  LET diff == Abs(JsMod(JsMod(a - b, 360) + 360, 360))
  IN  IF diff > 180 THEN 360 - diff ELSE diff

\* clamp without its upper limit.
clampBelowOnly(val, min, max) == Max2(min, val)

\* clamp (utils.js 34-36).
clamp(val, min, max) == Max2(min, Min2(max, val))

\* The leeward side taken to be where the wind comes from.
leewardIsWindward(windDir) == JsMod(windDir, 360)

\* powder.js 30: the direction the wind blows to.
leeward(windDir) == JsMod(windDir + 180, 360)

\* computePowderScores (powder.js 22-51).  totalSnowfall is in tenths of an
\* inch and avgWindSpeed a quotient num / den of mph, so snowFactor is
\* snowN / 60 and windTransport windN / windD; with cos scaled by 10^3 a
\* score is the quotient num / den returned here, den being the same for
\* every pixel.  A pixel past the end of aspectGrid reads undefined, which
\* isNaN takes for NaN.
computePowderScores(aspectGrid, windDir, totalSnowfall, totalPrecip, avgWindSpeed, width, height) ==
  LET snowN == clamp(totalSnowfall, 0, 60)
      windD == 30 * avgWindSpeed.den
      windN == clamp(avgWindSpeed.num, 6 * avgWindSpeed.den, windD)
      den == 120000 * windD
      lee == leeward(windDir)
      aspectAt(i) == IF i > Len(aspectGrid) THEN NaN ELSE aspectGrid[i]
      score(i) ==
        IF aspectAt(i) = NaN THEN snowN * 1000 * windD
        ELSE LET diff == angleDifference(Val(aspectAt(i)), lee)
             IN  snowN * (1000 * windD + CosDeg(diff) * windN)
  IN  [ den |-> den,
        num |-> IF snowN = 0 THEN [ i \in 1..(width * height) |-> 0 ]
                ELSE [ i \in 1..(width * height) |-> score(i) ] ]

\* An aspect grid with every whole bearing, the 360 that a bearing just
\* below it is stored as, and an undefined pixel.
AllAspects == [ i \in 1..362 |-> IF i = 362 THEN NaN ELSE Some(i - 1) ]

\* Position of a bearing 0..359 in AllAspects.
AspectIndex(a) == a + 1

PowderInputs ==
  [ aspectGrid : {AllAspects},
    windDir : 0..359,
    totalSnowfall : {-10, 0, 3, 60, 100},
    totalPrecip : {0},
    avgWindSpeed : { [num |-> n, den |-> 1] : n \in {0, 15, 30, 50} },
    dims : { [width |-> 362, height |-> 1], [width |-> 33, height |-> 11] } ]

InitPowder ==
  /\ IdleSession
  /\ fnIn \in { Some(a) : a \in PowderInputs }
  /\ fnOut = NULL

ApplyPowder ==
  /\ fnOut = NULL
  /\ LET a == Val(fnIn)
     IN  fnOut' = Some([v |-> computePowderScores(a.aspectGrid, a.windDir,
                                a.totalSnowfall, a.totalPrecip, a.avgWindSpeed,
                                a.dims.width, a.dims.height)])
  /\ UNCHANGED restOfFn

NextPowder == ApplyPowder

SpecPowder == InitPowder /\ [][NextPowder]_vars

\* ------------------------------------------------ angleDifference alone
\* Bearings inside and outside [0,360), negative ones among them.
Bearings ==
  { x \in -725..725 : x % 25 = 0 \/ x % 90 = 0 \/ x % 360 \in {1, 179, 181, 359} }

InitAngle ==
  /\ IdleSession
  /\ fnIn \in { Some([a |-> a, b |-> b]) : a \in Bearings, b \in Bearings }
  /\ fnOut = NULL

ApplyAngle ==
  /\ fnOut = NULL
  /\ fnOut' = Some([v |-> angleDifference(Val(fnIn).a, Val(fnIn).b)])
  /\ UNCHANGED restOfFn

NextAngle == ApplyAngle

SpecAngle == InitAngle /\ [][NextAngle]_vars

\* ---------------------------------------------- computeAspectGrid alone
\* The 3 x 3 elevation grids with every cell at the bottom, one step above
\* it, or at the top.
AspectGrids == [ 1..9 -> {0, 1, MaxElevation} ]

InitAspect ==
  /\ IdleSession
  /\ fnIn \in { Some([elevations |-> e, width |-> 3, height |-> 3]) :
                   e \in AspectGrids }
  /\ fnOut = NULL

ApplyAspect ==
  /\ fnOut = NULL
  /\ LET a == Val(fnIn)
     IN  fnOut' = Some([v |-> computeAspectGrid(a.elevations, a.width, a.height, 1)])
  /\ UNCHANGED restOfFn

NextAspect == ApplyAspect

SpecAspect == InitAspect /\ [][NextAspect]_vars

\* ------------------------------------------------------ the stitch alone
\* Tile ranges of one or two columns and rows.
StitchRanges ==
  { [ minTx |-> x, maxTx |-> x + c - 1, minTy |-> y, maxTy |-> y + r - 1,
      cols |-> c, rows |-> r ] :
      x \in {0, 5}, y \in {0, 5}, c \in 1..2, r \in 1..2 }

\* A decoded tile whose every pixel differs from every pixel of every tile.
DecodedTile(tx, ty, base) ==
  [ tx |-> tx, ty |-> ty, size |-> TileSize,
    elevations |-> [ k \in 1..(TileSize * TileSize) |->
                       base + 100 * (8 * ty + tx) + k ] ]

\* The tiles of a range in every order.
TileOrders(rg, base) ==
  LET ts == RangeTiles(rg)
      n == Len(ts)
      perms == { p \in [1..n -> 1..n] : \A i, j \in 1..n : p[i] = p[j] => i = j }
  IN  { [ k \in 1..n |-> DecodedTile(ts[p[k]].tx, ts[p[k]].ty, base) ] : p \in perms }

StitchInputs ==
  UNION { { [tiles |-> ts, rg |-> rg] : ts \in TileOrders(rg, base) } :
            rg \in StitchRanges, base \in {0, 5000} }

InitStitch ==
  /\ IdleSession
  /\ fnIn \in { Some(a) : a \in StitchInputs }
  /\ fnOut = NULL

ApplyStitch ==
  /\ fnOut = NULL
  /\ fnOut' = Some([v |-> Stitch(Val(fnIn).tiles, Val(fnIn).rg)])
  /\ UNCHANGED restOfFn

NextStitch == ApplyStitch

SpecStitch == InitStitch /\ [][NextStitch]_vars

\* ------------------------------------------------- the overlay (overlay.js)
\* The longest side of the rendered image.
maxDim == 1024

\* Math.round of the quotient a / b of two non-negative numbers.
RoundQuot(a, b) == (2 * a + b) \div (2 * b)

\* Math.floor(dim * scale) in the place of Math.round.
scaledDown(dim, width, height) ==
  (dim * maxDim) \div Max2(width, height)

\* Math.round(dim * scale), scale = maxDim / Math.max(width, height).
scaled(dim, width, height) ==
  RoundQuot(dim * maxDim, Max2(width, height))

\* The source index of the output coordinate x.  The ratio dim / outDim is
\* a double: where x * dim / outDim is a whole number the product x * ratio
\* may fall just below it, and Math.floor then gives the number before it.
srcIndex(x, dim, outDim, below) ==
  LET exact == (x * dim) \div outDim
      fl == IF below /\ x > 0 /\ (x * dim) % outDim = 0 THEN exact - 1 ELSE exact
  IN  Min2(fl, dim - 1)

\* The size of the image and the source column and row of every output
\* column and row: the least and the greatest the doubles allow.
renderOverlay(width, height) ==
  LET capped == width > maxDim \/ height > maxDim
      outW == IF capped THEN scaled(width, width, height) ELSE width
      outH == IF capped THEN scaled(height, width, height) ELSE height
  IN  [ outW |-> outW, outH |-> outH,
        srcXLow |-> [ x \in 0..(outW - 1) |-> srcIndex(x, width, outW, TRUE) ],
        srcXHigh |-> [ x \in 0..(outW - 1) |-> srcIndex(x, width, outW, FALSE) ],
        srcYLow |-> [ y \in 0..(outH - 1) |-> srcIndex(y, height, outH, TRUE) ],
        srcYHigh |-> [ y \in 0..(outH - 1) |-> srcIndex(y, height, outH, FALSE) ] ]

GridSides == {1, 2, 3, 512, 1023, 1024, 1025, 1536, 2047, 2048, 2049, 3000}

InitOverlay ==
  /\ IdleSession
  /\ fnIn \in { Some([width |-> w, height |-> h]) : w \in GridSides, h \in GridSides }
  /\ fnOut = NULL

ApplyOverlay ==
  /\ fnOut = NULL
  /\ fnOut' = Some([v |-> renderOverlay(Val(fnIn).width, Val(fnIn).height)])
  /\ UNCHANGED restOfFn

NextOverlay == ApplyOverlay

SpecOverlay == InitOverlay /\ [][NextOverlay]_vars

\* ---------------------------------------------- the colour ramp (overlay.js)
\* Each stop: score in thousandths, then r, g, b, a.
COLOR_RAMP ==
  << << 0, 0, 0, 0, 0 >>,
     << 350, 0, 0, 0, 0 >>,
     << 400, 120, 50, 160, 80 >>,
     << 500, 170, 50, 180, 150 >>,
     << 600, 220, 50, 160, 190 >>,
     << 750, 255, 80, 130, 220 >>,
     << 900, 255, 170, 200, 240 >>,
     << 1000, 255, 255, 255, 255 >> >>

\* COLOR_RAMP[i].slice(1)
StopColour(stop) == << stop[2], stop[3], stop[4], stop[5] >>

\* The loop over the segments: the first segment that holds the score,
\* interpolated and rounded channel by channel; [0, 0, 0, 0] if none does.
RampLoop(score, i) ==
  LET Step[k \in 1..Len(COLOR_RAMP)] ==
        IF k > Len(COLOR_RAMP) - 1 THEN << 0, 0, 0, 0 >>
        ELSE LET lo == COLOR_RAMP[k]
                 hi == COLOR_RAMP[k + 1]
                 span == hi[1] - lo[1]
             IN  IF score >= lo[1] /\ score <= hi[1]
                 THEN [ c \in 1..4 |->
                          RoundQuot(lo[c + 1] * span
                                    + (score - lo[1]) * (hi[c + 1] - lo[c + 1]), span) ]
                 ELSE Step[k + 1]
  IN  Step[i]

\* sampleRamp without the two clamps before the loop.
sampleRampLoopOnly(score) == RampLoop(score, 1)

sampleRamp(score) ==
  IF score <= COLOR_RAMP[1][1] THEN StopColour(COLOR_RAMP[1])
  ELSE IF score >= COLOR_RAMP[Len(COLOR_RAMP)][1]
       THEN StopColour(COLOR_RAMP[Len(COLOR_RAMP)])
       ELSE RampLoop(score, 1)

\* Scores in thousandths, from below the first stop to above the last.
RampScores == -50..1050

InitRamp ==
  /\ IdleSession
  /\ fnIn \in { Some([score |-> s]) : s \in RampScores }
  /\ fnOut = NULL

\* Two neighbouring pixels: the score and the score one thousandth above.
ApplyRamp ==
  /\ fnOut = NULL
  /\ fnOut' = Some([v |-> sampleRamp(Val(fnIn).score),
                    above |-> sampleRamp(Val(fnIn).score + 1)])
  /\ UNCHANGED restOfFn

NextRamp == ApplyRamp

SpecRamp == InitRamp /\ [][NextRamp]_vars

\* ================================================================= properties
\* --------------------------------------------------------------------- C1
\* C1: when the cache read of fetchTerrainGrid finds an entry, the call
\* resolves, in that step, with exactly the entry's elevations, aspectGrid,
\* width and height; the step requests no tile and leaves the store and the
\* number of cache writes alone; and the call never fetches a tile, stitches,
\* computes an aspect grid or calls saveTerrainToCache.
C1_CacheHitReturnsEntry ==
  /\ [][ \A c \in CallIds :
          (calls[c].tpc = "reading" /\ calls'[c].read = "hit") =>
            /\ StoreGet(store, cacheKey) # NULL
            /\ calls'[c].terrain.st = "settled"
            /\ calls'[c].terrain.v # NULL
            /\ LET e == Val(StoreGet(store, cacheKey))
                   r == Val(calls'[c].terrain.v)
               IN  /\ r.elevations = e.elevations
                   /\ r.aspectGrid = e.aspectGrid
                   /\ r.width = e.width
                   /\ r.height = e.height
            /\ store' = store
            /\ tileFetches' = tileFetches
            /\ putCount' = putCount ]_vars
  /\ [](\A c \in CallIds :
          calls[c].read = "hit" =>
            /\ calls[c].tpc = "resolved"
            /\ calls[c].requested = {}
            /\ ~calls[c].stitched
            /\ ~calls[c].aspect
            /\ calls[c].save = "none")

\* A call has resolved from an entry whose grids differ from what the tiles
\* would give now.
C1_Witness ==
  \E c \in CallIds :
    /\ calls[c].read = "hit"
    /\ calls[c].terrain.v # NULL
    /\ Val(calls[c].terrain.v).elevations = OlderEntry.elevations

\* --------------------------------------------------------------------- C2
\* The fetchTerrainGrid pipelines that have started and not yet settled.
InFlight == { c \in CallIds : calls[c].tpc \in {"reading", "fetching", "saving"} }

\* C2: in one page session there are never two fetchTerrainGrid pipelines in
\* flight at once, whatever the interleaving of the initial load and the
\* clicks, and the cache entry is written at most once.
C2_OnePipelineInFlight ==
  /\ Cardinality(InFlight) <= 1
  /\ putCount <= 1

\* --------------------------------------------------------------------- C3
ReadFailures == {"openFail", "txThrow", "getError"}

\* C3: whichever way the cache read fails (the database does not open, the
\* read transaction throws, the get request fires its error event), the call
\* is not rejected by it: it goes on as after a miss, to the fetch of the tiles.
C3_ReadFailureIsMiss ==
  [][ \A c \in CallIds :
        (calls[c].tpc = "reading" /\ calls'[c].read \in ReadFailures) =>
          /\ ~calls'[c].rejected
          /\ calls'[c].tpc = "fetching"
          /\ calls'[c].requested = RequestTiles(calls[c].req) ]_vars

\* --------------------------------------------------------------------- C4
SaveFailures == {"openFail", "txError"}

\* C4: when every tile arrived, the grid was stitched and the aspect grid
\* computed, and saveTerrainToCache then fails, fetchTerrainGrid is not
\* rejected: it resolves with the elevations, aspectGrid, width and height it
\* has just computed from the tiles.
C4_SaveFailureNotFatal ==
  \A c \in CallIds :
    calls[c].save \in SaveFailures =>
      /\ calls[c].stitched /\ calls[c].aspect
      /\ ~calls[c].rejected
      /\ calls[c].tpc = "resolved"
      /\ calls[c].pc = "api" =>
           /\ calls[c].terrain.st = "settled"
           /\ calls[c].terrain.v # NULL
           /\ LET r == Val(calls[c].terrain.v)
                  g == ComputeTerrain(calls[c].req.bounds, calls[c].req.zoom)
              IN  /\ r.elevations = g.elevations
                  /\ r.aspectGrid = g.aspectGrid
                  /\ r.width = g.width
                  /\ r.height = g.height

\* A call whose save failed for want of a database, and one whose write
\* transaction errored, have both resolved.
C4_Witness ==
  \E c, d \in CallIds :
    /\ calls[c].save = "openFail" /\ calls[c].tpc = "resolved"
    /\ calls[d].save = "txError" /\ calls[d].tpc = "resolved"
    /\ calls[c].terrain.v # NULL /\ calls[d].terrain.v # NULL

\* --------------------------------------------------------------------- C5
\* C5 as stated: once the save of a call has failed the store holds no entry
\* for the key.
C5_NoEntryAfterFailedSave ==
  [][ \A c \in CallIds :
        (calls[c].tpc = "saving" /\ calls'[c].save \in SaveFailures) =>
          StoreGet(store', cacheKey) = NULL ]_vars

\* C5: a save that fails leaves the store exactly as it was before the save,
\* so it adds no entry, whole or partial; and a call whose read finds no entry
\* for the key (or cannot open the database) requests every tile of the
\* range again.
C5_FailedSaveAddsNothing ==
  /\ [][ \A c \in CallIds :
          (calls[c].tpc = "saving" /\ calls'[c].save \in SaveFailures) =>
            store' = store ]_vars
  /\ [][ \A c \in CallIds :
          ( /\ calls[c].tpc = "reading"
            /\ calls'[c].read \in {"miss", "openFail"} ) =>
            /\ calls'[c].read = "miss" => StoreGet(store, cacheKey) = NULL
            /\ calls'[c].tpc = "fetching"
            /\ calls'[c].requested = RequestTiles(calls[c].req)
            /\ \A t \in RequestTiles(calls[c].req) :
                 tileFetches'[t] = tileFetches[t] + 1 ]_vars

\* The save of one call failed with the store empty, and another call missed
\* and has requested the tiles a second time.
C5_Witness ==
  \E c, d \in CallIds :
    /\ calls[c].save \in SaveFailures /\ calls[c].tpc = "resolved"
    /\ store = EmptyStore
    /\ calls[d].read = "miss" /\ calls[d].tpc = "fetching"
    /\ calls[c].req = calls[d].req
    /\ \A t \in RequestTiles(calls[d].req) : tileFetches[t] = 2

\* --------------------------------------------------------------------- C6
\* C6: a call of which a tile failed is rejected at that step and its caller
\* is given null for the terrain leg; the call stitches no grid, computes no
\* aspect grid, never calls saveTerrainToCache, and no step of it changes the
\* store.
C6_TileFailureRejects ==
  /\ [][ \A c \in CallIds :
          (calls'[c].tileFailed /\ calls'[c] # calls[c]) =>
            /\ store' = store
            /\ putCount' = putCount
            /\ ~calls[c].tileFailed =>
                 /\ calls'[c].rejected
                 /\ calls'[c].terrain = Settled(NULL) ]_vars
  /\ [](\A c \in CallIds :
          calls[c].tileFailed =>
            /\ calls[c].tpc = "rejected"
            /\ ~calls[c].stitched
            /\ ~calls[c].aspect
            /\ calls[c].save = "none"
            /\ calls[c].pc = "awaitAll" => calls[c].terrain = Settled(NULL))

\* A tile of a call has failed and the caller, still awaiting its other
\* fetches, holds null for the terrain leg.
C6_Witness ==
  \E c \in CallIds :
    /\ calls[c].tileFailed
    /\ calls[c].pc = "awaitAll"
    /\ calls[c].terrain = Settled(NULL)
    /\ \E t \in calls[c].requested : tileFetches[t] > 0

\* --------------------------------------------------------------------- C7
\* C7: two requests that differ in bounds or zoom never read or write the
\* same cache key.
C7_KeyInjective ==
  \A c, d \in CallIds :
    (calls[c].key # "" /\ calls[d].key # "" /\ calls[c].req # calls[d].req)
      => calls[c].key # calls[d].key

\* --------------------------------------------------------------------- C8
\* A call that has returned with an input it cannot do without missing:
\* the terrain, the wind (fetch failed or aggregate degenerate), or every
\* snow source.
FatalLeg(c) ==
  /\ calls[c].pc = "done"
  /\ \/ calls[c].path = "terrainUnavailable"
     \/ calls[c].windSeen \in {"failed", "degenerate"}
     \/ calls[c].snowSeen = "absent"

\* C8: every call with a fatal leg failure returns with the status message
\* visible and with no overlay computed or added by that call.
C8_FatalLegShowsStatus ==
  \A c \in CallIds :
    FatalLeg(c) =>
      /\ Val(calls[c].end).status.visible
      /\ ~calls[c].scored
      /\ ~calls[c].added

\* --------------------------------------------------------------------- C9
\* C9: a call that had a terrain value and no wind (the fetch failed, or
\* computeDominantWind gave null) computes no scores, renders and adds no
\* overlay, and returns with the map holding neither the overlay layer nor
\* the overlay source; a degenerate aggregate and a failed fetch end the same.
C9_NoWindNoOverlay ==
  \A c \in CallIds :
    ( /\ calls[c].pc = "done"
      /\ calls[c].windSeen \in {"failed", "degenerate"}
      /\ calls[c].path # "terrainUnavailable" ) =>
      /\ calls[c].path \in {"noSnow", "noWind"}
      /\ ~calls[c].scored
      /\ ~calls[c].added
      /\ Val(calls[c].end).source = NULL
      /\ ~Val(calls[c].end).layer

\* An overlay had been added by one call; another call, with snow and a
\* degenerate wind aggregate, has returned and the overlay is gone.
C9_Witness ==
  \E c, d \in CallIds :
    /\ calls[c].added
    /\ calls[d].pc = "done"
    /\ calls[d].path = "noWind"
    /\ calls[d].windSeen = "degenerate"
    /\ mapSource = NULL /\ ~mapLayer

\* -------------------------------------------------------------------- C10
\* The samples of an hourly object that have both a speed and a direction.
ValidSamples(h) ==
  IF h.wind_speed_10m = NULL \/ h.wind_direction_10m = NULL THEN {}
  ELSE { i \in 1..Len(Val(h.wind_speed_10m)) :
           /\ Val(h.wind_speed_10m)[i] # NULL
           /\ i <= Len(Val(h.wind_direction_10m))
           /\ Val(h.wind_direction_10m)[i] # NULL }

RECURSIVE SumOver(_, _)
SumOver(f, S) ==
  IF S = {} THEN 0
  ELSE LET i == CHOOSE j \in S : TRUE IN f[i] + SumOver(f, S \ {i})

\* speed * (1 + 10 * precip) of sample i, a missing precipitation being 0.
SampleWeight(h, i) ==
  LET p == IF h.precipitation = NULL THEN 0
           ELSE IF Val(h.precipitation)[i] = NULL THEN 0
           ELSE Val(Val(h.precipitation)[i])
  IN  Val(Val(h.wind_speed_10m)[i]) * (1 + p)

\* C10: computeDominantWind returns null exactly when no sample has both a
\* speed and a direction or the weights of the valid samples sum to zero;
\* otherwise avgSpeed is the sum of the valid speeds over their number and
\* the direction is at least 0 and less than 360.
C10_NullOrPlainMean ==
  fnOut # NULL =>
    LET h == Val(fnIn)
        out == Val(fnOut).v
        valid == ValidSamples(h)
        weights == [ i \in valid |-> SampleWeight(h, i) ]
        speeds == [ i \in valid |-> Val(Val(h.wind_speed_10m)[i]) ]
    IN  IF valid = {} \/ SumOver(weights, valid) = 0
        THEN out = NULL
        ELSE /\ out # NULL
             /\ Val(out).avgSpeed.den = Cardinality(valid)
             /\ Val(out).avgSpeed.num = SumOver(speeds, valid)
             /\ Val(out).direction >= 0
             /\ Val(out).direction < 360

\* An aggregate has been returned for a series with a sample left out as
\* invalid and a weighted one, whose direction atan2 gave as negative.
C10_Witness ==
  /\ fnOut # NULL
  /\ Val(fnOut).v # NULL
  /\ Cardinality(ValidSamples(Val(fnIn))) = 1
  /\ Len(Val(Val(fnIn).wind_speed_10m)) = 2
  /\ Val(Val(fnOut).v).direction = 200

\* -------------------------------------------------------------------- C11
\* C11 as stated: for a single sample with a speed and a direction,
\* computeDominantWind gives the direction and the speed of the sample.
C11_SingleSample ==
  fnOut # NULL =>
    LET h == Val(fnIn)
        out == Val(fnOut).v
    IN  /\ out # NULL
        /\ Val(out).direction = Val(Val(h.wind_direction_10m)[1])
        /\ Val(out).avgSpeed.num = Val(Val(h.wind_speed_10m)[1]) * Val(out).avgSpeed.den

\* C11: for a single sample whose speed is positive computeDominantWind
\* gives the direction and the speed of the sample; for a single calm
\* sample (speed 0) it gives null.
C11_SingleMovingSample ==
  fnOut # NULL =>
    LET h == Val(fnIn)
        out == Val(fnOut).v
        spd == Val(Val(h.wind_speed_10m)[1])
    IN  IF spd > 0
        THEN /\ out # NULL
             /\ Val(out).direction = Val(Val(h.wind_direction_10m)[1])
             /\ Val(out).avgSpeed.num = spd * Val(out).avgSpeed.den
        ELSE out = NULL

\* A sample from the south-west with precipitation has come back as it went
\* in, through a negative atan2.
C11_Witness ==
  /\ fnOut # NULL
  /\ Val(fnOut).v # NULL
  /\ Val(Val(fnIn).wind_direction_10m)[1] = Some(225)
  /\ Val(Val(fnIn).precipitation)[1] = Some(3)
  /\ Val(Val(fnOut).v).direction = 225
  /\ Val(Val(fnOut).v).avgSpeed = [num |-> 7, den |-> 1]

\* -------------------------------------------------------------------- C12
\* C12: every score computePowderScores returns is in [0,1]; with a snowfall
\* of 0 or less every score is 0; a pixel whose aspect is undefined scores
\* snowFactor / 2, snowFactor being snowfall / 6 held to [0,1]; and the grid
\* returned has width * height entries.
C12_ScoreRange ==
  fnOut # NULL =>
    LET a == Val(fnIn)
        out == Val(fnOut).v
        n == a.dims.width * a.dims.height
        \* snowFactor as sixtieths
        snowFactor == IF a.totalSnowfall < 0 THEN 0
                      ELSE IF a.totalSnowfall > 60 THEN 60 ELSE a.totalSnowfall
    IN  /\ DOMAIN out.num = 1..n
        /\ out.den > 0
        /\ \A i \in 1..n : out.num[i] >= 0 /\ out.num[i] <= out.den
        /\ a.totalSnowfall <= 0 => \A i \in 1..n : out.num[i] = 0
        /\ \A i \in 1..n :
             (i > Len(a.aspectGrid) \/ a.aspectGrid[Min2(i, Len(a.aspectGrid))] = NaN)
               => out.num[i] * 120 = snowFactor * out.den

\* Scores have been returned for deep snow and a gale, the undefined pixel
\* among them at one half, a pixel at the top of the range and one at 0.
C12_Witness ==
  /\ fnOut # NULL
  /\ Val(fnIn).totalSnowfall = 100
  /\ Val(fnIn).avgWindSpeed.num = 50
  /\ LET out == Val(fnOut).v
     IN  /\ out.num[362] * 2 = out.den
         /\ \E i \in DOMAIN out.num : out.num[i] = out.den
         /\ \E i \in DOMAIN out.num : out.num[i] = 0

\* -------------------------------------------------------------------- C13
\* C13: with snow on the ground, whatever the wind-from direction, no
\* bearing scores more than the leeward one, (windFrom + 180) mod 360, and
\* none less than the one opposite to it; and with 6 in of snow and a 30 mph
\* wind from 270 the bearing 90 scores 1 and the bearing 270 scores 0.
C13_LeewardExtremes ==
  (fnOut # NULL /\ Val(fnIn).totalSnowfall > 0) =>
    LET a == Val(fnIn)
        out == Val(fnOut).v
        lee == (a.windDir + 180) % 360
        best == out.num[AspectIndex(lee)]
        worst == out.num[AspectIndex(a.windDir)]
    IN  /\ \A b \in 0..359 :
             /\ out.num[AspectIndex(b)] <= best
             /\ out.num[AspectIndex(b)] >= worst
        /\ best > worst
        /\ ( /\ a.totalSnowfall = 60
             /\ a.avgWindSpeed = [num |-> 30, den |-> 1]
             /\ a.windDir = 270 ) =>
             /\ out.num[AspectIndex(90)] = out.den
             /\ out.num[AspectIndex(270)] = 0

\* The scenario of 6 in of snow and 30 mph from the west has been scored.
C13_Witness ==
  /\ fnOut # NULL
  /\ Val(fnIn).totalSnowfall = 60
  /\ Val(fnIn).avgWindSpeed = [num |-> 30, den |-> 1]
  /\ Val(fnIn).windDir = 270
  /\ Val(fnOut).v.num[AspectIndex(90)] = Val(fnOut).v.den

\* -------------------------------------------------------------------- C14
\* C14: angleDifference(a, b) equals angleDifference(b, a), is at least 0
\* and at most 180, is 0 when a = b, and is the distance between the two
\* bearings round the circle, for bearings in and out of [0,360).
C14_AngleDifference ==
  fnOut # NULL =>
    LET a == Val(fnIn).a
        b == Val(fnIn).b
        v == Val(fnOut).v
    IN  /\ v = angleDifference(b, a)
        /\ v >= 0 /\ v <= 180
        /\ a = b => v = 0
        /\ (a - b - v) % 360 = 0 \/ (a - b + v) % 360 = 0

\* The difference of a negative bearing and one beyond 360 has been taken
\* the short way round.
C14_Witness ==
  /\ fnOut # NULL
  /\ Val(fnIn).a = -450
  /\ Val(fnIn).b = 450
  /\ Val(fnOut).v = 180

\* -------------------------------------------------------------------- C15
\* C15: the aspect grid has width * height pixels; the pixels of the first
\* and last row and column, and the interior pixels whose two Horn
\* derivatives are both zero, are undefined; every other pixel holds a
\* bearing of at least 0 and less than 360.
C15_AspectRange ==
  fnOut # NULL =>
    LET a == Val(fnIn)
        e == a.elevations
        out == Val(fnOut).v
        edge(k) == LET x == (k - 1) % a.width
                       y == (k - 1) \div a.width
                   IN  x = 0 \/ x = a.width - 1 \/ y = 0 \/ y = a.height - 1
        \* for the one interior pixel of a 3 x 3 grid
        flat == /\ e[3] + 2 * e[6] + e[9] = e[1] + 2 * e[4] + e[7]
                /\ e[7] + 2 * e[8] + e[9] = e[1] + 2 * e[2] + e[3]
    IN  /\ DOMAIN out = 1..(a.width * a.height)
        /\ \A k \in DOMAIN out :
             IF edge(k) \/ flat THEN out[k] = NaN
             ELSE /\ out[k] # NaN
                  /\ Val(out[k]) >= 0
                  /\ Val(out[k]) < 360

\* -------------------------------------------------------------------- C16
\* C16: whatever the order of the tiles, the stitched grid is cols * tileSize
\* wide and rows * tileSize high, the pixel (px, py) of the tile at (col, row)
\* is at (row * tileSize + py) * width + col * tileSize + px, and every cell
\* of the grid lies in the block of exactly one tile.
C16_Stitch ==
  fnOut # NULL =>
    LET tiles == Val(fnIn).tiles
        rg == Val(fnIn).rg
        out == Val(fnOut).v
        ts == tiles[1].size
        col(t) == t.tx - rg.minTx
        row(t) == t.ty - rg.minTy
        inBlock(k, t) ==
          LET gx == (k - 1) % out.width
              gy == (k - 1) \div out.width
          IN  /\ gx \div ts = col(t)
              /\ gy \div ts = row(t)
    IN  /\ out.width = rg.cols * ts
        /\ out.height = rg.rows * ts
        /\ DOMAIN out.elevations = 1..(out.width * out.height)
        /\ \A i \in 1..Len(tiles) : \A px, py \in 0..(ts - 1) :
             out.elevations[(row(tiles[i]) * ts + py) * out.width
                            + col(tiles[i]) * ts + px + 1]
               = tiles[i].elevations[py * ts + px + 1]
        /\ \A k \in DOMAIN out.elevations :
             Cardinality({ i \in 1..Len(tiles) : inBlock(k, tiles[i]) }) = 1

\* Two by two tiles that arrived last tile first have been stitched.
C16_Witness ==
  /\ fnOut # NULL
  /\ Val(fnIn).rg.cols = 2 /\ Val(fnIn).rg.rows = 2
  /\ Val(fnIn).tiles[1].tx = Val(fnIn).rg.maxTx
  /\ Val(fnIn).tiles[1].ty = Val(fnIn).rg.maxTy
  /\ Val(fnOut).v.width = 2 * TileSize
  /\ Val(fnOut).v.elevations[Val(fnOut).v.width * Val(fnOut).v.height]
       = Val(fnIn).tiles[1].elevations[TileSize * TileSize]

\* -------------------------------------------------------------------- C17
\* C17: a grid of at most 1024 by 1024 is rendered at its own size; a larger
\* one at round(dim * 1024 / max(width, height)) in each dimension, so that
\* the longer side is 1024 and the other at most 1024; and the source column
\* and row of every output pixel lie inside the grid.
C17_OutputSize ==
  fnOut # NULL =>
    LET w == Val(fnIn).width
        h == Val(fnIn).height
        m == IF w >= h THEN w ELSE h
        out == Val(fnOut).v
        rounds(o, dim) == /\ 2 * o * m - 2 * dim * 1024 > -m
                          /\ 2 * o * m - 2 * dim * 1024 <= m
    IN  /\ (w <= 1024 /\ h <= 1024) => (out.outW = w /\ out.outH = h)
        /\ (w > 1024 \/ h > 1024) =>
             /\ rounds(out.outW, w)
             /\ rounds(out.outH, h)
             /\ (w >= h) => (out.outW = 1024 /\ out.outH <= 1024)
             /\ (h >= w) => (out.outH = 1024 /\ out.outW <= 1024)
        /\ \A x \in 0..(out.outW - 1) :
             /\ out.srcXLow[x] \in 0..(w - 1)
             /\ out.srcXHigh[x] \in 0..(w - 1)
             /\ out.srcXHigh[x] * out.outW <= x * w
             /\ x * w < (out.srcXHigh[x] + 1) * out.outW
        /\ \A y \in 0..(out.outH - 1) :
             /\ out.srcYLow[y] \in 0..(h - 1)
             /\ out.srcYHigh[y] \in 0..(h - 1)
             /\ out.srcYHigh[y] * out.outH <= y * h
             /\ y * h < (out.srcYHigh[y] + 1) * out.outH

\* A grid of 3000 by 1025 has been rendered at 1024 by 350; output row 42
\* reads source row 123, or 122 where the double product falls below 123.
C17_Witness ==
  /\ fnOut # NULL
  /\ Val(fnIn).width = 3000 /\ Val(fnIn).height = 1025
  /\ Val(fnOut).v.outW = 1024 /\ Val(fnOut).v.outH = 350
  /\ Val(fnOut).v.srcYLow[42] = 122 /\ Val(fnOut).v.srcYHigh[42] = 123
  /\ Val(fnOut).v.srcXHigh[1023] = 2997

\* -------------------------------------------------------------------- C18
\* C18: a score of at most 0.35 has alpha 0; a score of at most 0 has the
\* colour of the first stop and a score of at least 1 that of the last; at
\* the score of a stop the colour is the stop's; and one thousandth of score
\* changes no channel by more than 4, at the stops as anywhere else.
C18_Ramp ==
  fnOut # NULL =>
    LET s == Val(fnIn).score
        v == Val(fnOut).v
        above == Val(fnOut).above
    IN  /\ s <= 350 => v[4] = 0
        /\ s <= 0 => v = << 0, 0, 0, 0 >>
        /\ s >= 1000 => v = << 255, 255, 255, 255 >>
        /\ \A k \in 1..Len(COLOR_RAMP) :
             s = COLOR_RAMP[k][1] =>
               v = << COLOR_RAMP[k][2], COLOR_RAMP[k][3],
                      COLOR_RAMP[k][4], COLOR_RAMP[k][5] >>
        /\ \A c \in 1..4 : /\ v[c] \in 0..255
                            /\ above[c] - v[c] <= 4
                            /\ v[c] - above[c] <= 4

\* The score of the third stop has its colour, and the next thousandth a
\* different one.
C18_Witness ==
  /\ fnOut # NULL
  /\ Val(fnIn).score = 400
  /\ Val(fnOut).v = << 120, 50, 160, 80 >>
  /\ Val(fnOut).above # Val(fnOut).v

\* -------------------------------------------------------------------- C19
\* C19: cachedTerrain is null or a value fetchTerrainGrid returned, and
\* cachedResort is null or a value fetchResortSnow returned, whatever the
\* interleaving of the calls and whichever fetches failed.
C19_CachesHoldTheirOwn ==
  /\ cachedTerrain # NULL => IsTerrain(Val(cachedTerrain))
  /\ cachedResort # NULL => Some(Val(cachedResort)) \in ResortResults

\* -------------------------------------------------------------------- C20
\* C20: once no loadAndRender call is in flight, the overlay on the map is
\* the one the newest call, the call for currentHours, left there (present or
\* absent, and scored for its window), and a weather panel with content is
\* the panel of currentHours.
C20_DisplayIsNewest ==
  (nCalls > 0 /\ \A c \in CallIds : calls[c].pc \in {"idle", "done"}) =>
    /\ calls[nCalls].hours = currentHours
    /\ mapSource = Val(calls[nCalls].end).source
    /\ mapLayer = Val(calls[nCalls].end).layer
    /\ panel.mode = "content" => panel.hours = currentHours
====
